---- MODULE Spec2Model ----
(***************************************************************************)
(* Model of the bearer-token middleware of fiber-bearer-token              *)
(* (src/bearertoken.go).  Strings are sequences of one-character strings,  *)
(* so that len(), == and strings.SplitN are computed, not assumed.         *)
(***************************************************************************)
EXTENDS Naturals, Sequences, FiniteSets, TLC

VARIABLES heap, optsPtr, config, pc, token, errored, ctx

vars == <<heap, optsPtr, config, pc, token, errored, ctx>>

----------------------------------------------------------------------------
(* String literals of the source and of its test.                          *)

access_token == <<"a","c","c","e","s","s","_","t","o","k","e","n">>
Bearer == <<"B","e","a","r","e","r">>
tokenKey == <<"t","o","k","e","n">>
custom_token == <<"c","u","s","t","o","m","_","t","o","k","e","n">>
bearer == <<"b","e","a","r","e","r">>
Basic == <<"B","a","s","i","c">>
SP == <<" ">>

StatusBadRequest == 400

----------------------------------------------------------------------------
(* Bounds and the inputs drawn from them.                                  *)

MaxTokLen == 2

Rep(n) == [i \in 1..n |-> "x"]
Tokens == {Rep(n) : n \in 1..MaxTokLen}
Values == {<< >>} \cup Tokens

Workers == {"w1", "w2"}

ParamNames == {access_token, custom_token}

Schemes == {<< >>, Bearer, bearer, custom_token, Basic}
Tails ==
  {<< >>, SP}
    \cup {SP \o t : t \in Tokens}
    \cup {SP \o t \o SP \o u : t \in Tokens, u \in Tokens}
    \cup {SP \o SP \o t : t \in Tokens}
Headers == {s \o t : s \in Schemes, t \in Tails}

Requests == [query : [ParamNames -> Values],
             body : [ParamNames -> Values],
             authorization : Headers]

NoParams == [n \in ParamNames |-> << >>]
EmptyRequest == [query |-> NoParams, body |-> NoParams, authorization |-> << >>]

ConcRequests ==
  { EmptyRequest,
    [EmptyRequest EXCEPT !.query = [NoParams EXCEPT ![access_token] = Rep(1)]],
    [EmptyRequest EXCEPT !.body = [NoParams EXCEPT ![access_token] = Rep(2)]],
    [EmptyRequest EXCEPT !.authorization = Bearer \o SP \o Rep(2)],
    [EmptyRequest EXCEPT !.query = [NoParams EXCEPT ![access_token] = Rep(1)],
                         !.authorization = Bearer \o SP \o Rep(1)],
    [EmptyRequest EXCEPT !.query = [NoParams EXCEPT ![custom_token] = Rep(1)],
                         !.authorization = custom_token \o SP \o Rep(1)] }

----------------------------------------------------------------------------
(* Config, and the two Config objects a program using New holds: the one   *)
(* the caller passes by pointer and the one New allocates.                 *)

ZeroConfig == [BodyKey |-> << >>, HeaderKey |-> << >>,
               QueryKey |-> << >>, RequestKey |-> << >>]

DefaultConfig == [BodyKey |-> access_token, HeaderKey |-> Bearer,
                  QueryKey |-> access_token, RequestKey |-> tokenKey]

OptsChoices == [BodyKey : {<< >>, custom_token},
                HeaderKey : {<< >>, custom_token},
                QueryKey : {<< >>, custom_token},
                RequestKey : {<< >>, bearer}]

ConcOpts == {ZeroConfig,
             [BodyKey |-> custom_token, HeaderKey |-> custom_token,
              QueryKey |-> custom_token, RequestKey |-> bearer]}

Addrs == {"optsAddr", "configAddr"}

(* config := &Config{...}: a fresh object, never the caller's. *)
ConfigPtrAliased(p) == IF p = "nil" THEN "configAddr" ELSE p
ConfigPtr(p) == "configAddr"

(* The body of New up to the returned closure: defaults, then each         *)
(* non-empty field of *opts copied over its default.                       *)
NewConfigCopyPaste(h, p) ==
  IF p # "nil"
    THEN [BodyKey    |-> IF Len(h[p].BodyKey) > 0 THEN h[p].BodyKey ELSE access_token,
          HeaderKey  |-> IF Len(h[p].HeaderKey) > 0 THEN h[p].HeaderKey ELSE Bearer,
          QueryKey   |-> IF Len(h[p].BodyKey) > 0 THEN h[p].BodyKey ELSE access_token,
          RequestKey |-> IF Len(h[p].RequestKey) > 0 THEN h[p].RequestKey ELSE tokenKey]
    ELSE DefaultConfig
NewConfig(h, p) ==
  IF p # "nil"
    THEN [BodyKey    |-> IF Len(h[p].BodyKey) > 0 THEN h[p].BodyKey ELSE DefaultConfig.BodyKey,
          HeaderKey  |-> IF Len(h[p].HeaderKey) > 0 THEN h[p].HeaderKey ELSE DefaultConfig.HeaderKey,
          QueryKey   |-> IF Len(h[p].QueryKey) > 0 THEN h[p].QueryKey ELSE DefaultConfig.QueryKey,
          RequestKey |-> IF Len(h[p].RequestKey) > 0 THEN h[p].RequestKey ELSE DefaultConfig.RequestKey]
    ELSE DefaultConfig

----------------------------------------------------------------------------
(* strings.SplitN for a one-character separator and n >= 1.                *)

RECURSIVE Index(_, _, _)
Index(s, c, i) ==
  IF i > Len(s) THEN 0
  ELSE IF s[i] = c THEN i
  ELSE Index(s, c, i + 1)

RECURSIVE SplitNAll(_, _, _)
SplitNAll(s, sep, n) ==
  LET i == Index(s, sep, 1) IN
    IF i = 0 THEN <<s>>
    ELSE <<SubSeq(s, 1, i - 1)>> \o SplitNAll(SubSeq(s, i + 1, Len(s)), sep, n)

RECURSIVE SplitN(_, _, _)
SplitN(s, sep, n) ==
  LET i == Index(s, sep, 1) IN
    IF n = 1 \/ i = 0 THEN <<s>>
    ELSE <<SubSeq(s, 1, i - 1)>> \o SplitN(SubSeq(s, i + 1, Len(s)), sep, n - 1)

----------------------------------------------------------------------------
(* The request context (fiber.Ctx) as the middleware uses it.              *)

NoLocals == << >>

NewCtx(r) == [req |-> r, status |-> 200, body |-> << >>,
              locals |-> NoLocals, nextCalls |-> 0, calls |-> << >>]

Param(m, key) == IF key \in DOMAIN m THEN m[key] ELSE << >>

(* The handler the tests mount behind the middleware:                      *)
(* ctx.Send(ctx.Locals(requestKey)).                                       *)
Downstream(c, x) ==
  [x EXCEPT !.body = IF c.RequestKey \in DOMAIN x.locals
                       THEN x.locals[c.RequestKey] ELSE << >>]

(* The handler invocation that owns the locals token and errored. *)
FrameShared(w) == "w1"
Frame(w) == w

(* The locals of all invocations and their contexts, as one value. *)
Locals == [token |-> token, errored |-> errored, ctx |-> ctx]

Enter(w, r, L) ==
  [token   |-> [L.token EXCEPT ![Frame(w)] = << >>],
   errored |-> [L.errored EXCEPT ![Frame(w)] = FALSE],
   ctx     |-> [L.ctx EXCEPT ![w] = NewCtx(r)]]

QueryStepDefaultKey(c, w, L) ==
  LET queryValue == Param(L.ctx[w].req.query, access_token) IN
    IF Len(queryValue) > 0
      THEN [L EXCEPT !.token[Frame(w)] = queryValue]
      ELSE L
QueryStep(c, w, L) ==
  LET queryValue == Param(L.ctx[w].req.query, c.QueryKey) IN
    IF Len(queryValue) > 0
      THEN [L EXCEPT !.token[Frame(w)] = queryValue]
      ELSE L

BodyStepNoFlag(c, w, L) ==
  LET bodyValue == Param(L.ctx[w].req.body, c.BodyKey) IN
    IF Len(bodyValue) > 0
      THEN [L EXCEPT !.token[Frame(w)] = bodyValue]
      ELSE L
BodyStep(c, w, L) ==
  LET bodyValue == Param(L.ctx[w].req.body, c.BodyKey) IN
    IF Len(bodyValue) > 0
      THEN [L EXCEPT !.errored[Frame(w)] = @ \/ Len(L.token[Frame(w)]) > 0,
                     !.token[Frame(w)] = bodyValue]
      ELSE L

HeaderMatchAnyScheme(c, components) == Len(components) = 2
HeaderMatchNoCase(c, components) ==
  /\ Len(components) = 2
  /\ components[1] \in {c.HeaderKey, bearer}
HeaderMatch(c, components) ==
  /\ Len(components) = 2
  /\ components[1] = c.HeaderKey

HeaderStep(c, w, L) ==
  LET headerValue == L.ctx[w].req.authorization IN
    IF Len(headerValue) > 0
      THEN LET components == SplitN(headerValue, " ", 2) IN
             IF HeaderMatch(c, components)
               THEN [L EXCEPT !.errored[Frame(w)] = @ \/ Len(L.token[Frame(w)]) > 0,
                              !.token[Frame(w)] = components[2]]
               ELSE L
      ELSE L

RespondAlwaysNext(c, w, L) ==
  LET x == L.ctx[w]
      y == IF L.errored[Frame(w)]
             THEN [x EXCEPT !.status = StatusBadRequest,
                            !.calls = @ \o <<"Status", "Send">>]
             ELSE x IN
    [L EXCEPT !.ctx[w] =
       Downstream(c, [y EXCEPT !.locals = (c.RequestKey :> L.token[Frame(w)]) @@ @,
                               !.nextCalls = @ + 1,
                               !.calls = @ \o <<"Locals", "Next">>])]
RespondDefaultKey(c, w, L) ==
  LET x == L.ctx[w] IN
    IF L.errored[Frame(w)]
      THEN [L EXCEPT !.ctx[w] = [x EXCEPT !.status = StatusBadRequest,
                                          !.body = << >>,
                                          !.calls = @ \o <<"Status", "Send">>]]
      ELSE [L EXCEPT !.ctx[w] =
              Downstream(c, [x EXCEPT !.locals = (tokenKey :> L.token[Frame(w)]) @@ @,
                                      !.nextCalls = @ + 1,
                                      !.calls = @ \o <<"Locals", "Next">>])]
(* if errored { ctx.Status(400).Send() } else { ctx.Locals(...); ctx.Next() } *)
Respond(c, w, L) ==
  LET x == L.ctx[w] IN
    IF L.errored[Frame(w)]
      THEN [L EXCEPT !.ctx[w] = [x EXCEPT !.status = StatusBadRequest,
                                          !.body = << >>,
                                          !.calls = @ \o <<"Status", "Send">>]]
      ELSE [L EXCEPT !.ctx[w] =
              Downstream(c, [x EXCEPT !.locals = (c.RequestKey :> L.token[Frame(w)]) @@ @,
                                      !.nextCalls = @ + 1,
                                      !.calls = @ \o <<"Locals", "Next">>])]

(* One whole invocation of the closure New returns. *)
Handler(c, w, r, L) ==
  Respond(c, w, HeaderStep(c, w, BodyStep(c, w, QueryStep(c, w, Enter(w, r, L)))))

----------------------------------------------------------------------------
(* State machine.                                                          *)

Store(L) ==
  /\ token' = L.token
  /\ errored' = L.errored
  /\ ctx' = L.ctx

Init ==
  /\ heap = [a \in Addrs |-> ZeroConfig]
  /\ optsPtr = "nil"
  /\ config = "nil"
  /\ pc = [w \in Workers |-> "idle"]
  /\ token = [w \in Workers |-> << >>]
  /\ errored = [w \in Workers |-> FALSE]
  /\ ctx = [w \in Workers |-> NewCtx(EmptyRequest)]

(* The program calls New(opts): opts is nil or points at a Config, one of O. *)
CallNew(p, O) ==
  /\ config = "nil"
  /\ p \in {"nil", "optsAddr"}
  /\ \E o \in O :
     LET h == IF p = "nil" THEN heap ELSE [heap EXCEPT ![p] = o]
         q == ConfigPtr(p) IN
       /\ heap' = [h EXCEPT ![q] = NewConfig(h, p)]
       /\ config' = q
  /\ optsPtr' = p
  /\ UNCHANGED <<pc, token, errored, ctx>>

(* The caller assigns to the Config it passed to New. *)
MutateOpts(o) ==
  /\ config # "nil"
  /\ optsPtr # "nil"
  /\ heap[optsPtr] # o
  /\ heap' = [heap EXCEPT ![optsPtr] = o]
  /\ UNCHANGED <<optsPtr, config, pc, token, errored, ctx>>

(* The host runs the middleware on one request, start to end. *)
Serve(w) ==
  /\ config # "nil"
  /\ \A v \in Workers : pc[v] = "idle"
  /\ \E r \in Requests : Store(Handler(heap[config], w, r, Locals))
  /\ pc' = [pc EXCEPT ![w] = "done"]
  /\ UNCHANGED <<heap, optsPtr, config>>

(* The request is over; its context is recycled. *)
Discard(w) ==
  /\ pc[w] = "done"
  /\ pc' = [pc EXCEPT ![w] = "idle"]
  /\ ctx' = [ctx EXCEPT ![w] = NewCtx(EmptyRequest)]
  /\ token' = [token EXCEPT ![w] = << >>]
  /\ errored' = [errored EXCEPT ![w] = FALSE]
  /\ UNCHANGED <<heap, optsPtr, config>>

Next ==
  \/ \E p \in {"nil", "optsAddr"} : CallNew(p, OptsChoices)
  \/ \E w \in Workers : Serve(w)
  \/ \E w \in Workers : Discard(w)

Spec == Init /\ [][Next]_vars

(* The same handler, one statement group at a time, on concurrent requests. *)
Begin(w) ==
  /\ config # "nil"
  /\ pc[w] = "idle"
  /\ \E r \in ConcRequests : Store(Enter(w, r, Locals))
  /\ pc' = [pc EXCEPT ![w] = "query"]
  /\ UNCHANGED <<heap, optsPtr, config>>

DoQuery(w) ==
  /\ pc[w] = "query"
  /\ Store(QueryStep(heap[config], w, Locals))
  /\ pc' = [pc EXCEPT ![w] = "body"]
  /\ UNCHANGED <<heap, optsPtr, config>>

DoBody(w) ==
  /\ pc[w] = "body"
  /\ Store(BodyStep(heap[config], w, Locals))
  /\ pc' = [pc EXCEPT ![w] = "header"]
  /\ UNCHANGED <<heap, optsPtr, config>>

DoHeader(w) ==
  /\ pc[w] = "header"
  /\ Store(HeaderStep(heap[config], w, Locals))
  /\ pc' = [pc EXCEPT ![w] = "respond"]
  /\ UNCHANGED <<heap, optsPtr, config>>

DoRespond(w) ==
  /\ pc[w] = "respond"
  /\ Store(Respond(heap[config], w, Locals))
  /\ pc' = [pc EXCEPT ![w] = "done"]
  /\ UNCHANGED <<heap, optsPtr, config>>

NextConc ==
  \/ \E p \in {"nil", "optsAddr"} : CallNew(p, ConcOpts)
  \/ \E o \in ConcOpts : MutateOpts(o)
  \/ \E w \in Workers : Begin(w)
  \/ \E w \in Workers : DoQuery(w)
  \/ \E w \in Workers : DoBody(w)
  \/ \E w \in Workers : DoHeader(w)
  \/ \E w \in Workers : DoRespond(w)
  \/ \E w \in Workers : Discard(w)

SpecConc == Init /\ [][NextConc]_vars

----------------------------------------------------------------------------
(* Vocabulary of the properties, stated on the request and the response    *)
(* alone: which sources supply a token, and what the client and the next   *)
(* handler observe.                                                        *)

Cfg == heap[config]
Done(w) == pc[w] = "done"

QueryOf(c, r) == IF c.QueryKey \in DOMAIN r.query THEN r.query[c.QueryKey] ELSE << >>
BodyOf(c, r) == IF c.BodyKey \in DOMAIN r.body THEN r.body[c.BodyKey] ELSE << >>

FirstSpace(h) ==
  IF \E i \in 1..Len(h) : h[i] = " "
    THEN CHOOSE i \in 1..Len(h) : h[i] = " " /\ \A j \in 1..(i - 1) : h[j] # " "
    ELSE 0
Scheme(h) == SubSeq(h, 1, FirstSpace(h) - 1)
Credential(h) == SubSeq(h, FirstSpace(h) + 1, Len(h))
HeaderMatches(c, r) ==
  /\ FirstSpace(r.authorization) > 0
  /\ Scheme(r.authorization) = c.HeaderKey

SuppliedBy(c, r) ==
  [query  |-> QueryOf(c, r),
   body   |-> BodyOf(c, r),
   header |-> IF HeaderMatches(c, r) THEN Credential(r.authorization) ELSE << >>]
Suppliers(c, r) == {s \in {"query", "body", "header"} : SuppliedBy(c, r)[s] # << >>}

ConflictOutcome(x) ==
  /\ x.status = StatusBadRequest
  /\ x.body = << >>
  /\ x.nextCalls = 0
  /\ x.locals = NoLocals
  /\ x.calls = <<"Status", "Send">>
SuccessOutcome(c, x, v) ==
  /\ x.status = 200
  /\ x.nextCalls = 1
  /\ x.locals = (c.RequestKey :> v)
  /\ x.body = v
  /\ x.calls = <<"Locals", "Next">>

ExpectedConflict(c, r) ==
  \/ QueryOf(c, r) # << >> /\ BodyOf(c, r) # << >>
  \/ HeaderMatches(c, r) /\ (QueryOf(c, r) # << >> \/ BodyOf(c, r) # << >>)
ExpectedToken(c, r) ==
  IF HeaderMatches(c, r) THEN Credential(r.authorization)
  ELSE IF BodyOf(c, r) # << >> THEN BodyOf(c, r)
  ELSE QueryOf(c, r)

----------------------------------------------------------------------------
(* C1: whenever two or more of the three sources supply a non-empty token  *)
(* (any pair, all three, equal values or not), the request is answered     *)
(* with the 400 conflict response and the next handler is not run.         *)
C1_MultipleSourcesConflict ==
  \A w \in Workers :
    (Done(w) /\ Cardinality(Suppliers(Cfg, ctx[w].req)) >= 2)
      => ConflictOutcome(ctx[w])

(* C1 witness: all three sources supply the same literal string. *)
C1_Witness ==
  \E w \in Workers :
    /\ Done(w)
    /\ Suppliers(Cfg, ctx[w].req) = {"query", "body", "header"}
    /\ QueryOf(Cfg, ctx[w].req) = BodyOf(Cfg, ctx[w].req)
    /\ QueryOf(Cfg, ctx[w].req) = Credential(ctx[w].req.authorization)
    /\ ctx[w].status = StatusBadRequest

(* C2: whenever exactly one source supplies a non-empty value v and the    *)
(* other two supply no non-empty token, there is no conflict and the       *)
(* published token is v.                                                   *)
C2_SingleSourceToken ==
  \A w \in Workers :
    (Done(w) /\ Cardinality(Suppliers(Cfg, ctx[w].req)) = 1)
      => \E s \in Suppliers(Cfg, ctx[w].req) :
           SuccessOutcome(Cfg, ctx[w], SuppliedBy(Cfg, ctx[w].req)[s])

(* C3: a signalled conflict ends the request with status 400, an empty     *)
(* body, no call of the next handler and nothing published; and every      *)
(* finished request shows exactly one of the two outcomes.                 *)
C3_ConflictResponse ==
  \A w \in Workers :
    Done(w) =>
      /\ errored[w] => ConflictOutcome(ctx[w])
      /\ ConflictOutcome(ctx[w]) # (\E v \in Values \cup {token[w]} : SuccessOutcome(Cfg, ctx[w], v))

(* C3 witness: a finished request on which the conflict was signalled. *)
C3_Witness ==
  \E w \in Workers : Done(w) /\ errored[w] /\ ctx[w].status = StatusBadRequest

(* C4: without a conflict the extracted token, possibly empty, is          *)
(* published under config.RequestKey and only then the next handler runs,  *)
(* exactly once, and reads exactly that value.                             *)
C4_SuccessPublishes ==
  \A w \in Workers :
    (Done(w) /\ ~errored[w]) =>
      /\ ctx[w].calls = <<"Locals", "Next">>
      /\ ctx[w].nextCalls = 1
      /\ ctx[w].locals = (Cfg.RequestKey :> token[w])
      /\ ctx[w].body = token[w]

(* C4 witness: a non-empty token published under a renamed request key. *)
C4_Witness ==
  \E w \in Workers :
    /\ Done(w) /\ ~errored[w]
    /\ token[w] # << >>
    /\ Cfg.RequestKey = bearer
    /\ ctx[w].nextCalls = 1

(* C5: a request with no query value, no body value and no header whose    *)
(* scheme matches passes through with the empty token and no 400.          *)
C5_NoSourceEmptyToken ==
  \A w \in Workers :
    (/\ Done(w)
     /\ QueryOf(Cfg, ctx[w].req) = << >>
     /\ BodyOf(Cfg, ctx[w].req) = << >>
     /\ ~HeaderMatches(Cfg, ctx[w].req))
      => SuccessOutcome(Cfg, ctx[w], << >>)

(* C5 witness: such a request that still carries a foreign header. *)
C5_Witness ==
  \E w \in Workers :
    /\ Done(w)
    /\ QueryOf(Cfg, ctx[w].req) = << >>
    /\ BodyOf(Cfg, ctx[w].req) = << >>
    /\ ~HeaderMatches(Cfg, ctx[w].req)
    /\ ctx[w].req.authorization = Basic \o SP \o Rep(1)
    /\ ctx[w].status = 200

(* C6: a header with no space, or whose text before the first space is not *)
(* exactly config.HeaderKey, counts as absent: the outcome is the one the  *)
(* query and body values alone give.                                       *)
C6_ForeignHeaderIgnored ==
  \A w \in Workers :
    (Done(w) /\ ~HeaderMatches(Cfg, ctx[w].req)) =>
      LET q == QueryOf(Cfg, ctx[w].req)
          b == BodyOf(Cfg, ctx[w].req) IN
        IF q # << >> /\ b # << >>
          THEN ConflictOutcome(ctx[w])
          ELSE SuccessOutcome(Cfg, ctx[w], IF b # << >> THEN b ELSE q)

(* C6 witness: a header that differs from the scheme in case only, with a  *)
(* credential, beside a query token.                                       *)
C6_Witness ==
  \E w \in Workers :
    /\ Done(w)
    /\ Cfg.HeaderKey = Bearer
    /\ ctx[w].req.authorization = bearer \o SP \o Rep(2)
    /\ QueryOf(Cfg, ctx[w].req) = Rep(1)
    /\ BodyOf(Cfg, ctx[w].req) = << >>
    /\ ctx[w].locals = (Cfg.RequestKey :> Rep(1))

(* C7: after New, each key is the caller's value when that is non-empty    *)
(* and its default otherwise (all defaults for nil), and none is empty.    *)
C7_ConfigDefaults ==
  config # "nil" =>
    LET d == [BodyKey |-> access_token, HeaderKey |-> Bearer,
              QueryKey |-> access_token, RequestKey |-> tokenKey] IN
      \A f \in {"BodyKey", "HeaderKey", "QueryKey", "RequestKey"} :
        /\ Cfg[f] # << >>
        /\ Cfg[f] = IF optsPtr = "nil" \/ heap[optsPtr][f] = << >>
                      THEN d[f] ELSE heap[optsPtr][f]

(* C7 witness: a Config with some keys given and some left empty. *)
C7_Witness ==
  /\ config # "nil"
  /\ optsPtr # "nil"
  /\ heap[optsPtr].BodyKey = custom_token
  /\ heap[optsPtr].QueryKey = << >>
  /\ Cfg.BodyKey = custom_token
  /\ Cfg.QueryKey = access_token

(* C8: with all keys renamed the outcome depends on the renamed query      *)
(* parameter, body field and scheme only, and the token is published       *)
(* under the renamed request key only.                                     *)
C8_RenamedKeysExclusive ==
  \A w \in Workers :
    (/\ Done(w)
     /\ Cfg.QueryKey # access_token /\ Cfg.BodyKey # access_token
     /\ Cfg.HeaderKey # Bearer /\ Cfg.RequestKey # tokenKey) =>
      LET r == ctx[w].req
          q == r.query[custom_token]
          b == r.body[custom_token]
          h == /\ Len(r.authorization) > Len(custom_token)
               /\ SubSeq(r.authorization, 1, Len(custom_token) + 1) = custom_token \o SP
          t == IF h THEN SubSeq(r.authorization, Len(custom_token) + 2, Len(r.authorization))
               ELSE IF b # << >> THEN b ELSE q IN
        IF (q # << >> /\ b # << >>) \/ (h /\ (q # << >> \/ b # << >>))
          THEN ConflictOutcome(ctx[w])
          ELSE /\ SuccessOutcome(Cfg, ctx[w], t)
               /\ DOMAIN ctx[w].locals = {bearer}

(* C8 witness: every default-named source carries a token, and only the    *)
(* renamed query parameter is a source.                                    *)
C8_Witness ==
  \E w \in Workers :
    /\ Done(w)
    /\ Cfg.QueryKey = custom_token /\ Cfg.BodyKey = custom_token
    /\ Cfg.HeaderKey = custom_token /\ Cfg.RequestKey = bearer
    /\ ctx[w].req.query = [NoParams EXCEPT ![access_token] = Rep(1), ![custom_token] = Rep(2)]
    /\ ctx[w].req.body = [NoParams EXCEPT ![access_token] = Rep(1)]
    /\ ctx[w].req.authorization = Bearer \o SP \o Rep(1)
    /\ ctx[w].locals = (bearer :> Rep(2))

(* C9: under every interleaving of concurrent requests each finished       *)
(* request shows the outcome it has alone, and the resolved configuration  *)
(* never changes after New, also when the caller changes its Config.       *)
C9_NoInterference ==
  /\ [](\A w \in Workers :
          Done(w) =>
            IF ExpectedConflict(Cfg, ctx[w].req)
              THEN ConflictOutcome(ctx[w])
              ELSE SuccessOutcome(Cfg, ctx[w], ExpectedToken(Cfg, ctx[w].req)))
  /\ [][config # "nil" => (config' = config /\ heap'[config'] = heap[config])]_vars

(* C9 witness: two different requests finished side by side, one rejected  *)
(* and one served, after the caller changed the Config it had passed.      *)
C9_Witness ==
  /\ Done("w1") /\ Done("w2")
  /\ ctx["w1"].req # ctx["w2"].req
  /\ ctx["w1"].status = StatusBadRequest
  /\ ctx["w2"].status = 200 /\ ctx["w2"].body # << >>
  /\ optsPtr # "nil"
  /\ NewConfig(heap, optsPtr) # Cfg

====
